---------------------------- MODULE Spec2Model ----------------------------
(***************************************************************************)
(* Model of the sandboxed patch-validation runner                          *)
(* (codecontext-rag/runner/runner_service.py): one validation run driven   *)
(* by execute_validation, the environment it acts on (workspace directory, *)
(* sandbox container, git repository, fixer service, webhook), and a       *)
(* client polling the run's status (RunnerClient.wait_for_validation).     *)
(*                                                                         *)
(* The service runs on one asyncio event loop: a status request is served  *)
(* only while execute_validation is suspended in an await that really      *)
(* yields (the fixer request, the execution engine, the webhook post),     *)
(* before the background task starts, or after it ended.                   *)
(***************************************************************************)
EXTENDS Integers, Sequences, FiniteSets, TLC

\* MAX_ATTEMPTS = int(os.getenv("MAX_VALIDATION_ATTEMPTS", "3"))
MAX_ATTEMPTS == 3

\* Bound of the model: status polls one client makes before it gives up
\* (timeout / poll_interval in wait_for_validation).
MaxPolls == 3

\* Bound of the model: rounds of the log stream's poll loop, which is
\* range(60) in stream_logs.
StreamPollCeiling == 2

VARIABLES
    pc,          \* position of execute_validation ("idle" before POST /validate)
    request,     \* the ValidationRequest of the run
    status,      \* run.status ("none" while no run is registered)
    attempts,    \* run.attempts
    errors,      \* run.errors
    workspace,   \* run.workspace is set
    sandbox,     \* run.sandbox is set
    result,      \* run.result
    completed,   \* run.completed_at is set
    success,     \* local variable success
    attempt,     \* loop variable attempt
    commit_sha,  \* local variable commit_sha
    metrics,     \* the metrics dictionary
    wsExists,    \* the workspace directory exists on disk
    sbRunning,   \* the sandbox container is running
    head,        \* HEAD of the clone in the workspace
    remote,      \* head of the branch on origin
    hist,        \* what the run has done so far (observation only)
    poll,        \* the polling client
    stream,      \* the client reading GET /validate/{run_id}/logs
    unit,        \* one call of a function checked on its own: input, steps, result
    inflight     \* several runs in flight: what each one owns and can reach

vars == <<pc, request, status, attempts, errors, workspace, sandbox, result,
          completed, success, attempt, commit_sha, metrics, wsExists,
          sbRunning, head, remote, hist, poll, stream, unit, inflight>>

runVars == <<status, attempts, errors, workspace, sandbox, result, completed>>
envVars == <<wsExists, sbRunning, head, remote>>

Terminal == {"completed", "failed", "error"}

ExecModes == {"absent", "disabled", "enabled"}

\* class ValidationRequest, reduced to what execute_validation branches on
Requests ==
    [branchIsMain : BOOLEAN, hasCallback : BOOLEAN, execution : ExecModes]

NoResult ==
    [kind |-> "None", commit |-> "absent", attempts |-> -1, errors |-> <<>>,
     error |-> "absent", execution |-> "absent"]

NoPoll == [state |-> "off", count |-> 0, seen |-> "none",
           seenWs |-> FALSE, seenSb |-> FALSE]

NoHist ==
    [staticRuns |-> <<>>, fixResponses |-> <<>>, applied |-> 0,
     commits |-> <<>>, pushes |-> <<>>, cleanup |-> <<>>, callbacks |-> <<>>,
     raisedAt |-> "none", engineRuns |-> 0, engineOut |-> "absent",
     dispatches |-> 0, hungAt |-> "none", fixPatches |-> <<>>, ops |-> <<>>]

NoStream == [state |-> "off", polls |-> 0, endedAt |-> "none"]

\* The registry before any request: no run
RunInit ==
    /\ pc = "idle"
    /\ request = [branchIsMain |-> TRUE, hasCallback |-> FALSE,
                  execution |-> "absent"]
    /\ status = "none"
    /\ attempts = 0
    /\ errors = <<>>
    /\ workspace = FALSE
    /\ sandbox = FALSE
    /\ result = NoResult
    /\ completed = FALSE
    /\ success = FALSE
    /\ attempt = 0
    /\ commit_sha = "absent"
    /\ metrics = [total_validations |-> 0, successful_validations |-> 0,
                  failed_validations |-> 0, total_llm_fixes |-> 0,
                  successful_llm_fixes |-> 0]
    /\ wsExists = FALSE
    /\ sbRunning = FALSE
    /\ head = "absent"
    /\ remote = "base"
    /\ hist = NoHist
    /\ poll = NoPoll
    /\ stream = NoStream

NoUnit == [fn |-> "none"]

NoRuns == <<>>

Init ==
    /\ RunInit
    /\ unit = NoUnit
    /\ inflight = NoRuns

Bump(m, k) == [m EXCEPT ![k] = @ + 1]

\* POST /validate: the run is registered as pending and the task is queued.
TriggerValidation ==
    /\ pc = "idle"
    /\ \E req \in Requests : request' = req
    /\ status' = "pending"
    /\ metrics' = Bump(metrics, "total_validations")
    /\ pc' = "start"
    /\ UNCHANGED <<attempts, errors, workspace, sandbox, result, completed,
                   success, attempt, commit_sha, envVars, hist, poll, stream, unit, inflight>>


\* An exception leaves the try block of execute_validation at step `at`.
Raise(at) ==
    /\ pc' = "handler"
    /\ hist' = [hist EXCEPT !.raisedAt = at]

\* lines 640-646: status = "running", then setup_workspace
Begin ==
    /\ pc = "start"
    /\ status' = "running"
    /\ \/ /\ workspace' = TRUE
          /\ wsExists' = TRUE
          /\ pc' = "clone"
          /\ hist' = hist
       \/ /\ Raise("workspace")
          /\ UNCHANGED <<workspace, wsExists>>
    /\ UNCHANGED <<request, attempts, errors, sandbox, result, completed,
                   success, attempt, commit_sha, metrics, sbRunning, head,
                   remote, poll, stream, unit, inflight>>

\* clone_repository: a non-zero exit of git clone raises
CloneRepository ==
    /\ pc = "clone"
    /\ \/ /\ head' = "base"
          /\ pc' = "checkout"
          /\ hist' = hist
       \/ /\ Raise("clone")
          /\ head' = head
    /\ UNCHANGED <<request, runVars, success, attempt, commit_sha, metrics,
                   wsExists, sbRunning, remote, poll, stream, unit, inflight>>

CheckoutErrorResult ==
    [NoResult EXCEPT !.kind = "error", !.error = "checkout failed"]

\* Mutant of CheckoutBranch: the except branch lacks its return, and the
\* run goes on with the patch.
CheckoutBranchNoReturn ==
    /\ pc = "checkout"
    /\ IF request.branchIsMain
       THEN /\ pc' = "patch"
            /\ UNCHANGED <<status, result, hist>>
       ELSE \/ /\ pc' = "patch"
               /\ UNCHANGED <<status, result, hist>>
            \/ /\ status' = "error"
               /\ result' = CheckoutErrorResult
               /\ hist' = [hist EXCEPT !.raisedAt = "checkout"]
               /\ pc' = "patch"
    /\ UNCHANGED <<request, attempts, errors, workspace, sandbox, completed,
                   success, attempt, commit_sha, metrics, envVars, poll, stream, unit, inflight>>

\* lines 659-689: fetch and checkout of a branch other than main; a failed
\* subprocess (CalledProcessError, caught at line 682) sets the status to
\* error and returns.
CheckoutBranch ==
    /\ pc = "checkout"
    /\ IF request.branchIsMain
       THEN /\ pc' = "patch"
            /\ UNCHANGED <<status, result, hist>>
       ELSE \/ /\ pc' = "patch"
               /\ UNCHANGED <<status, result, hist>>
            \/ /\ status' = "error"
               /\ result' = CheckoutErrorResult
               /\ hist' = [hist EXCEPT !.raisedAt = "checkout"]
               /\ pc' = "finally"
    /\ UNCHANGED <<request, attempts, errors, workspace, sandbox, completed,
                   success, attempt, commit_sha, metrics, envVars, poll, stream, unit, inflight>>

PatchOutcomes == {"ok", "check_failed", "apply_failed"}

\* apply_patch raises when the dry run or the real apply exits non-zero
PatchRaises(outcome) == outcome # "ok"

\* line 693: the request's patch is applied
ApplyInitialPatch ==
    /\ pc = "patch"
    /\ \E outcome \in PatchOutcomes :
         IF PatchRaises(outcome)
         THEN Raise("patch")
         ELSE /\ pc' = "sandbox"
              /\ hist' = [hist EXCEPT !.applied = @ + 1,
                                      !.ops = Append(@, "apply_patch")]
    /\ UNCHANGED <<request, runVars, success, attempt, commit_sha, metrics,
                   envVars, poll, stream, unit, inflight>>

\* Mutant of InitialSuccess: the flag starts out set.
InitialSuccessSet == TRUE

\* line 706: success = False
InitialSuccess == FALSE

\* lines 697-706: create_sandbox, run.sandbox = sandbox.id
CreateSandbox ==
    /\ pc = "sandbox"
    /\ \/ /\ sandbox' = TRUE
          /\ sbRunning' = TRUE
          /\ success' = InitialSuccess
          /\ attempt' = 0
          /\ pc' = "loop"
          /\ hist' = hist
       \/ /\ Raise("sandbox")
          /\ UNCHANGED <<sandbox, sbRunning, success, attempt>>
    /\ UNCHANGED <<request, status, attempts, errors, workspace, result,
                   completed, commit_sha, metrics, wsExists, head, remote,
                   poll, stream, unit, inflight>>


\* Exit of a command run in the sandbox, or the exec call itself raising
ExecOutcomes == {"zero", "nonzero", "raises"}

\* check_syntax: passed = (exit_code == 0)
CheckSyntax(exit) ==
    [passed |-> exit = "zero",
     type |-> IF exit = "zero" THEN "None" ELSE "SyntaxError"]

\* Mutant of CheckBuild: the build command's exit code decides.
CheckBuildByExit(exit) ==
    [passed |-> exit = "zero",
     type |-> IF exit = "zero" THEN "None" ELSE "BuildError"]

\* check_build: 'passed': True whatever the exit code
CheckBuild(exit) == [passed |-> TRUE, type |-> "None"]

\* validate_in_sandbox: syntax check, then build check; an exception of
\* either exec call is caught and reported as a ValidationError.
ValidateInSandbox(syn, build) ==
    IF syn = "raises"
    THEN [success |-> FALSE, step |-> "validation", error |-> "ValidationError"]
    ELSE IF ~CheckSyntax(syn).passed
    THEN [success |-> FALSE, step |-> "syntax", error |-> CheckSyntax(syn).type]
    ELSE IF build = "raises"
    THEN [success |-> FALSE, step |-> "validation", error |-> "ValidationError"]
    ELSE IF ~CheckBuild(build).passed
    THEN [success |-> FALSE, step |-> "build", error |-> CheckBuild(build).type]
    ELSE [success |-> TRUE, step |-> "none", error |-> "None"]

\* The build check runs only when the syntax check returned and passed.
BuildInputs(syn) == IF syn = "zero" THEN ExecOutcomes ELSE {"zero"}

\* Mutants of AttemptNumber: the loop index itself, and one too many.
AttemptNumberZeroBased(a) == a

AttemptNumberOneTooMany(a) == a + 2

\* line 709: run.attempts = attempt + 1
AttemptNumber(a) == a + 1

\* Mutants of RecordError: the list is overwritten instead of extended,
\* and the error is not recorded.
RecordErrorOverwrites(errs, e) == <<e>>

RecordErrorSkipped(errs, e) == errs

\* line 724: run.errors.append(error)
RecordError(errs, e) == Append(errs, e)

\* Mutant of IsLastAttempt: no attempt is taken for the last one.
IsLastAttemptNever(a) == FALSE

\* line 728: attempt == MAX_ATTEMPTS - 1
IsLastAttempt(a) == a = MAX_ATTEMPTS - 1

\* line 708: for attempt in range(MAX_ATTEMPTS)
LoopHead ==
    /\ pc = "loop"
    /\ IF attempt < MAX_ATTEMPTS
       THEN /\ attempts' = AttemptNumber(attempt)
            /\ pc' = "validate"
       ELSE /\ attempts' = attempts
            /\ pc' = "exec"
    /\ UNCHANGED <<request, status, errors, workspace, sandbox, result,
                   completed, success, attempt, commit_sha, metrics, envVars,
                   hist, poll, stream, unit, inflight>>

\* lines 713-734: one static validation attempt and what follows it
Validate ==
    /\ pc = "validate"
    /\ \E syn \in ExecOutcomes : \E build \in BuildInputs(syn) :
         LET r == ValidateInSandbox(syn, build) IN
         /\ hist' = [hist EXCEPT
                !.staticRuns = Append(@, IF r.success THEN "pass" ELSE "fail"),
                !.ops = Append(@, "validate_in_sandbox")]
         /\ IF r.success
            THEN /\ success' = TRUE
                 /\ pc' = "exec"
                 /\ UNCHANGED <<errors, metrics>>
            ELSE /\ errors' = RecordError(errors, r.error)
                 /\ success' = success
                 /\ IF IsLastAttempt(attempt)
                    THEN /\ pc' = "exec"
                         /\ metrics' = metrics
                    ELSE /\ pc' = "fix"
                         /\ metrics' = Bump(metrics, "total_llm_fixes")
    /\ UNCHANGED <<request, status, attempts, workspace, sandbox, result,
                   completed, attempt, commit_sha, envVars, poll, stream, unit, inflight>>

\* What the chat-completion request gives back: it raises, or it returns
\* a text that may hold a --- and a +++ marker.
FixResponses ==
    {r \in [raises : BOOLEAN, hasMinus : BOOLEAN, hasPlus : BOOLEAN] :
        r.raises => (~r.hasMinus /\ ~r.hasPlus)}

\* Mutant of LlmDebugAndFix: one marker is enough for the text to pass.
LlmDebugAndFixEitherMarker(resp) ==
    IF resp.raises
    THEN [success |-> FALSE, error |-> "LLM request failed"]
    ELSE IF ~(resp.hasMinus \/ resp.hasPlus)
    THEN [success |-> FALSE, error |-> "LLM did not return valid patch format"]
    ELSE [success |-> TRUE, error |-> "None"]

\* llm_debug_and_fix: success iff the request returned and the text holds
\* both markers
LlmDebugAndFix(resp) ==
    IF resp.raises
    THEN [success |-> FALSE, error |-> "LLM request failed"]
    ELSE IF ~(resp.hasMinus /\ resp.hasPlus)
    THEN [success |-> FALSE, error |-> "LLM did not return valid patch format"]
    ELSE [success |-> TRUE, error |-> "None"]

\* lines 736-748: the fixer's answer arrives
\* line 693 and line 753: the patch in the working tree is the request's
\* until a corrected one has been applied over it
AppliedPatch(h) == IF h.applied <= 1 THEN "original" ELSE "corrected"

\* Mutant of PatchGivenToFixer: the fixer is given the patch now applied.
PatchGivenToFixerCurrent(original, current) == current

\* line 739: original_patch=run.request.patch
PatchGivenToFixer(original, current) == original

\* lines 752-753: reset_repository, then apply_patch with the corrected patch
CorrectedPatchSteps == <<"reset_repository", "apply_patch">>

Fix ==
    /\ pc = "fix"
    /\ \E resp \in FixResponses :
         LET fix_result == LlmDebugAndFix(resp) IN
         /\ hist' = [hist EXCEPT
                !.fixResponses = Append(@, resp),
                !.fixPatches = Append(@, PatchGivenToFixer("original",
                                                           AppliedPatch(hist)))]
         /\ IF ~fix_result.success
            THEN /\ pc' = "exec"
                 /\ metrics' = metrics
            ELSE /\ pc' = "reapply"
                 /\ metrics' = Bump(metrics, "successful_llm_fixes")
    /\ UNCHANGED <<request, runVars, success, attempt, commit_sha, envVars,
                   poll, stream, unit, inflight>>

\* lines 751-753: reset_repository, then apply_patch of the corrected patch
ApplyCorrectedPatch ==
    /\ pc = "reapply"
    /\ \E outcome \in PatchOutcomes :
         IF PatchRaises(outcome)
         THEN /\ pc' = "handler"
              /\ hist' = [hist EXCEPT !.raisedAt = "reapply",
                                      !.ops = @ \o CorrectedPatchSteps]
              /\ attempt' = attempt
         ELSE /\ pc' = "loop"
              /\ attempt' = attempt + 1
              /\ hist' = [hist EXCEPT !.applied = @ + 1,
                                      !.ops = @ \o CorrectedPatchSteps]
    /\ UNCHANGED <<request, runVars, success, commit_sha, metrics, envVars,
                   poll, stream, unit, inflight>>


\* Mutants of ExecutionWanted: the config's enabled flag is not looked at,
\* and the execution step is never taken.
ExecutionWantedIgnoresEnabled == success /\ request.execution # "absent"

ExecutionWantedNever == FALSE

\* line 756: success and run.request.execution and run.request.execution.enabled
ExecutionWanted == success /\ request.execution = "enabled"

\* lines 756-758 and 808/826: where the run goes after the attempt loop
AfterLoop ==
    /\ pc = "exec"
    /\ pc' = IF ExecutionWanted THEN "engine"
             ELSE IF success THEN "commit" ELSE "fail"
    /\ UNCHANGED <<request, runVars, success, attempt, commit_sha, metrics,
                   envVars, hist, poll, stream, unit, inflight>>

EngineOutcomes == {"success", "unsuccessful", "raises"}

\* ExecutionEngine.execute, lines 35-40: a config that is not enabled is
\* answered at once with success and strategy none; only an enabled one
\* reaches the dispatch on config.strategy.
EngineDispatches(mode) == mode = "enabled"

\* What the try block around engine.execute can end with for a config
EngineResults(mode) ==
    IF EngineDispatches(mode) THEN EngineOutcomes ELSE {"success"}

\* Mutant of SuccessAfterExecution: the except branch does not clear the flag.
SuccessAfterExecutionKeptOnRaise(s, outcome) ==
    IF outcome = "unsuccessful" THEN FALSE ELSE s

\* lines 791-799: success = False when the result is unsuccessful and when
\* the engine raised; otherwise the flag is left as it was
SuccessAfterExecution(s, outcome) ==
    IF outcome = "success" THEN s ELSE FALSE

\* Mutant of DynamicExecution: a dynamic failure is handled like a static
\* one: recorded in run.errors and, while attempts remain, sent to the fixer.
DynamicExecutionRetries ==
    /\ pc = "engine"
    /\ \E outcome \in EngineResults(request.execution) :
         /\ result' = [result EXCEPT
                !.kind = "partial",
                !.execution = IF outcome = "raises" THEN "engine_error"
                              ELSE outcome]
         /\ success' = SuccessAfterExecution(success, outcome)
         /\ errors' = IF outcome = "success" THEN errors
                       ELSE Append(errors, "ExecutionError")
         /\ pc' = IF outcome = "success" THEN "commit"
                  ELSE IF IsLastAttempt(attempt) THEN "fail" ELSE "fix"
         /\ hist' = [hist EXCEPT
                !.engineRuns = @ + 1,
                !.engineOut = outcome,
                !.dispatches = IF EngineDispatches(request.execution)
                               THEN @ + 1 ELSE @]
    /\ UNCHANGED <<request, status, attempts, workspace, sandbox,
                   completed, attempt, commit_sha, metrics, envVars, poll, stream, unit, inflight>>

\* lines 760-805: engine.execute; its result, or its exception, is stored
\* under result["execution"], and anything but success clears `success`.
DynamicExecution ==
    /\ pc = "engine"
    /\ \E outcome \in EngineResults(request.execution) :
         /\ result' = [result EXCEPT
                !.kind = "partial",
                !.execution = IF outcome = "raises" THEN "engine_error"
                              ELSE outcome]
         /\ success' = SuccessAfterExecution(success, outcome)
         /\ pc' = IF SuccessAfterExecution(success, outcome)
                  THEN "commit" ELSE "fail"
         /\ hist' = [hist EXCEPT
                !.engineRuns = @ + 1,
                !.engineOut = outcome,
                !.dispatches = IF EngineDispatches(request.execution)
                               THEN @ + 1 ELSE @]
    /\ UNCHANGED <<request, status, attempts, errors, workspace, sandbox,
                   completed, attempt, commit_sha, metrics, envVars, poll, stream, unit, inflight>>

\* What git commit does: it commits, it finds nothing to commit, it exits
\* non-zero for another reason, or the subprocess cannot be started at all
\* (subprocess.run raises OSError).
CommitOutcomes == {"committed", "nothing_to_commit", "commit_failed", "os_error"}

\* commit_changes passes no check=True and no timeout: only a subprocess
\* that cannot be started raises.
CommitRaises(outcome) == outcome = "os_error"

\* commit_changes: git add, git commit, then git rev-parse HEAD; no exit
\* code is looked at, and the hash returned is whatever HEAD is afterwards.
CommitChanges(outcome, h) == IF outcome = "committed" THEN "new" ELSE h

\* lines 809-811
Commit ==
    /\ pc = "commit"
    /\ \E outcome \in CommitOutcomes :
         IF CommitRaises(outcome)
         THEN /\ pc' = "handler"
              /\ hist' = [hist EXCEPT !.raisedAt = "commit",
                                      !.commits = Append(@, outcome)]
              /\ UNCHANGED <<head, commit_sha>>
         ELSE /\ head' = CommitChanges(outcome, head)
              /\ commit_sha' = CommitChanges(outcome, head)
              /\ hist' = [hist EXCEPT !.commits = Append(@, outcome)]
              /\ pc' = "push"
    /\ UNCHANGED <<request, runVars, success, attempt, metrics, wsExists,
                   sbRunning, remote, poll, stream, unit, inflight>>

PushOutcomes == {"pushed", "rejected", "timeout"}

\* push_changes: subprocess.run(..., timeout=120) without check: only the
\* timeout raises, a non-zero exit returns normally.
PushRaises(outcome) == outcome = "timeout"

SuccessResult ==
    [NoResult EXCEPT !.kind = "success", !.commit = commit_sha,
                     !.attempts = attempts]

\* lines 813-825: push, then status = "completed" and the success result
Push ==
    /\ pc = "push"
    /\ \E outcome \in PushOutcomes :
         /\ IF PushRaises(outcome)
            THEN /\ pc' = "handler"
                 /\ hist' = [hist EXCEPT !.raisedAt = "push",
                                         !.pushes = Append(@, outcome)]
                 /\ UNCHANGED <<status, result, metrics, remote>>
            ELSE /\ remote' = IF outcome = "pushed" THEN head ELSE remote
                 /\ status' = "completed"
                 /\ result' = SuccessResult
                 /\ metrics' = Bump(metrics, "successful_validations")
                 /\ pc' = "callback"
                 /\ hist' = [hist EXCEPT !.pushes = Append(@, outcome)]
    /\ UNCHANGED <<request, attempts, errors, workspace, sandbox, completed,
                   success, attempt, commit_sha, wsExists, sbRunning, head,
                   poll, stream, unit, inflight>>

FailureResult ==
    [NoResult EXCEPT !.kind = "failure", !.attempts = attempts,
                     !.errors = errors]

\* lines 826-834
Fail ==
    /\ pc = "fail"
    /\ status' = "failed"
    /\ result' = FailureResult
    /\ metrics' = Bump(metrics, "failed_validations")
    /\ pc' = "callback"
    /\ UNCHANGED <<request, attempts, errors, workspace, sandbox, completed,
                   success, attempt, commit_sha, envVars, hist, poll, stream, unit, inflight>>


\* Mutant of SendCallback: a post that fails is not caught and reaches the
\* except clause of execute_validation.
SendCallbackUncaught ==
    /\ pc = "callback"
    /\ IF request.hasCallback
       THEN \E delivered \in BOOLEAN :
              /\ hist' = [hist EXCEPT !.callbacks =
                         Append(@, [status |-> status, delivered |-> delivered])]
              /\ pc' = IF delivered THEN "finally" ELSE "handler"
       ELSE /\ hist' = hist
            /\ pc' = "finally"
    /\ UNCHANGED <<request, runVars, success, attempt, commit_sha, metrics,
                   envVars, poll, stream, unit, inflight>>

\* lines 836-838 and send_callback: the post is made only when the request
\* names a callback URL; whatever the post raises is caught and logged.
SendCallback ==
    /\ pc = "callback"
    /\ IF request.hasCallback
       THEN \E delivered \in BOOLEAN :
              hist' = [hist EXCEPT !.callbacks =
                         Append(@, [status |-> status, delivered |-> delivered])]
       ELSE hist' = hist
    /\ pc' = "finally"
    /\ UNCHANGED <<request, runVars, success, attempt, commit_sha, metrics,
                   envVars, poll, stream, unit, inflight>>

ErrorResult == [NoResult EXCEPT !.kind = "error", !.error = "exception"]

\* Mutant of HandleException: an exception ends the run as failed.
HandleExceptionAsFailed ==
    /\ pc = "handler"
    /\ status' = "failed"
    /\ result' = ErrorResult
    /\ metrics' = Bump(metrics, "failed_validations")
    /\ pc' = "finally"
    /\ UNCHANGED <<request, attempts, errors, workspace, sandbox, completed,
                   success, attempt, commit_sha, envVars, hist, poll, stream, unit, inflight>>

\* lines 840-850: except Exception
HandleException ==
    /\ pc = "handler"
    /\ status' = "error"
    /\ result' = ErrorResult
    /\ metrics' = Bump(metrics, "failed_validations")
    /\ pc' = "finally"
    /\ UNCHANGED <<request, attempts, errors, workspace, sandbox, completed,
                   success, attempt, commit_sha, envVars, hist, poll, stream, unit, inflight>>

\* Mutant of CleanupSandbox: a failing stop is not caught and leaves the
\* finally block before the workspace is removed.
CleanupSandboxPropagates ==
    /\ pc = "finally"
    /\ completed' = TRUE
    /\ IF sandbox
       THEN \E stopped \in BOOLEAN :
              /\ sbRunning' = (sbRunning /\ ~stopped)
              /\ hist' = [hist EXCEPT !.cleanup = Append(@, "sandbox")]
              /\ pc' = IF stopped THEN "cleanup_ws" ELSE "done"
       ELSE /\ UNCHANGED <<sbRunning, hist>>
            /\ pc' = "cleanup_ws"
    /\ UNCHANGED <<request, status, attempts, errors, workspace, sandbox,
                   result, success, attempt, commit_sha, metrics, wsExists,
                   head, remote, poll, stream, unit, inflight>>

\* lines 852-858 and cleanup_sandbox: stop and remove the container; a
\* failure is caught and logged, and may leave the container running.
CleanupSandbox ==
    /\ pc = "finally"
    /\ completed' = TRUE
    /\ IF sandbox
       THEN \E stopped \in BOOLEAN :
              /\ sbRunning' = (sbRunning /\ ~stopped)
              /\ hist' = [hist EXCEPT !.cleanup = Append(@, "sandbox")]
       ELSE UNCHANGED <<sbRunning, hist>>
    /\ pc' = "cleanup_ws"
    /\ UNCHANGED <<request, status, attempts, errors, workspace, sandbox,
                   result, success, attempt, commit_sha, metrics, wsExists,
                   head, remote, poll, stream, unit, inflight>>

\* Mutant of CleanupWorkspace: a directory that cannot be removed turns the
\* run into an error.
CleanupWorkspaceEscalates ==
    /\ pc = "cleanup_ws"
    /\ IF workspace
       THEN \E removed \in BOOLEAN :
              /\ wsExists' = (wsExists /\ ~removed)
              /\ hist' = [hist EXCEPT !.cleanup = Append(@, "workspace")]
              /\ status' = IF removed THEN status ELSE "error"
       ELSE UNCHANGED <<wsExists, hist, status>>
    /\ pc' = "done"
    /\ UNCHANGED <<request, attempts, errors, workspace, sandbox, result,
                   completed, success, attempt, commit_sha, metrics,
                   sbRunning, head, remote, poll, stream, unit, inflight>>

\* lines 860-863 and cleanup_workspace: shutil.rmtree; a failure is caught
\* and logged, and leaves the directory in place.
CleanupWorkspace ==
    /\ pc = "cleanup_ws"
    /\ IF workspace
       THEN \E removed \in BOOLEAN :
              /\ wsExists' = (wsExists /\ ~removed)
              /\ hist' = [hist EXCEPT !.cleanup = Append(@, "workspace")]
       ELSE UNCHANGED <<wsExists, hist>>
    /\ pc' = "done"
    /\ UNCHANGED <<request, runVars, success, attempt, commit_sha, metrics,
                   sbRunning, head, remote, poll, stream, unit, inflight>>

\* Whether execute_validation, at step p, still has log entries to append:
\* every step logs, and the finally block ends with "Validation complete".
AppendsLogs(p) == p \notin {"idle", "done", "hung"}

\* The awaits of execute_validation that give the event loop back, and the
\* time before the task starts and after it ended.
Suspended ==
    \/ pc \in {"start", "fix", "engine", "done"}
    \/ pc = "callback" /\ request.hasCallback

\* wait_for_validation is called with the run id POST /validate returned
StartPolling ==
    /\ pc # "idle"
    /\ poll.state = "off"
    /\ poll' = [poll EXCEPT !.state = "polling"]
    /\ UNCHANGED <<pc, request, runVars, success, attempt, commit_sha,
                   metrics, envVars, hist, stream, unit, inflight>>

\* wait_for_validation: one GET /validate/{run_id}; a terminal status is
\* returned, any other is followed by a sleep and another round.
PollStatus ==
    /\ poll.state = "polling"
    /\ poll.count < MaxPolls
    /\ Suspended
    /\ poll' = [state |-> IF status \in Terminal THEN "returned" ELSE "polling",
                count |-> poll.count + 1,
                seen |-> status,
                seenWs |-> wsExists,
                seenSb |-> sbRunning]
    /\ UNCHANGED <<pc, request, runVars, success, attempt, commit_sha,
                   metrics, envVars, hist, stream, unit, inflight>>

\* wait_for_validation: raise TimeoutError once elapsed reached timeout
PollTimeout ==
    /\ poll.state = "polling"
    /\ poll.count = MaxPolls
    /\ poll' = [poll EXCEPT !.state = "timeout"]
    /\ UNCHANGED <<pc, request, runVars, success, attempt, commit_sha,
                   metrics, envVars, hist, stream, unit, inflight>>

\* The timeout= arguments of the subprocess calls: git clone (300 s) and
\* git push (120 s) have one; git fetch/checkout, git apply, git reset,
\* git commit and container.exec_run are called without.
StepHasTimeout(step) == step \in {"clone", "push"}

\* The steps of execute_validation that wait for a subprocess or for a
\* command in the sandbox
CommandSteps ==
    {"clone", "checkout", "patch", "validate", "reapply", "engine", "commit",
     "push"}

\* A command started without a timeout never returns: the call that waits
\* for it never returns either, and execute_validation stays in it.
Hang ==
    /\ pc \in CommandSteps
    /\ ~StepHasTimeout(pc)
    /\ pc = "checkout" => ~request.branchIsMain
    /\ pc' = "hung"
    /\ hist' = [hist EXCEPT !.hungAt = pc]
    /\ UNCHANGED <<request, runVars, success, attempt, commit_sha, metrics,
                   envVars, poll, stream, unit, inflight>>

\* stream_logs: the generator sends the buffered entries and enters its
\* poll loop only if run.status == "running"; otherwise it ends.
OpenStream ==
    /\ pc # "idle"
    /\ stream.state = "off"
    /\ Suspended
    /\ stream' = IF status = "running"
                 THEN [stream EXCEPT !.state = "open"]
                 ELSE [stream EXCEPT !.state = "closed", !.endedAt = status]
    /\ UNCHANGED <<pc, request, runVars, success, attempt, commit_sha,
                   metrics, envVars, hist, poll, unit, inflight>>

\* stream_logs, lines 617-625: one round of the poll loop: sleep, send the
\* new entries, leave the loop when the status is no longer running; the
\* loop also ends after its last round.
StreamPoll ==
    /\ stream.state = "open"
    /\ stream.polls < StreamPollCeiling
    /\ Suspended
    /\ stream' = IF status # "running" \/ stream.polls + 1 = StreamPollCeiling
                 THEN [state |-> "closed", polls |-> stream.polls + 1,
                       endedAt |-> status]
                 ELSE [stream EXCEPT !.polls = @ + 1]
    /\ UNCHANGED <<pc, request, runVars, success, attempt, commit_sha,
                   metrics, envVars, hist, poll, unit, inflight>>

\* The steps of execute_validation
RunStep ==
    \/ Begin \/ CloneRepository \/ CheckoutBranch \/ ApplyInitialPatch
    \/ CreateSandbox \/ LoopHead \/ Validate \/ Fix \/ ApplyCorrectedPatch
    \/ AfterLoop \/ DynamicExecution \/ Commit \/ Push \/ Fail
    \/ SendCallback \/ HandleException \/ CleanupSandbox \/ CleanupWorkspace

Next ==
    \/ TriggerValidation
    \/ Begin
    \/ CloneRepository
    \/ CheckoutBranch
    \/ ApplyInitialPatch
    \/ CreateSandbox
    \/ LoopHead
    \/ Validate
    \/ Fix
    \/ ApplyCorrectedPatch
    \/ AfterLoop
    \/ DynamicExecution
    \/ Commit
    \/ Push
    \/ Fail
    \/ SendCallback
    \/ HandleException
    \/ CleanupSandbox
    \/ CleanupWorkspace
    \/ StartPolling
    \/ PollStatus
    \/ PollTimeout
    \/ Hang
    \/ OpenStream
    \/ StreamPoll

Spec == Init /\ [][Next]_vars

-----------------------------------------------------------------------------
\* Several runs in flight: which directories each run owns and which ones
\* its sandbox can reach.

\* Bound of the model: runs registered at the same time
MaxRuns == 2

RunIds == 1..MaxRuns

\* WORKSPACE_ROOT, the directory the workspace volume is mounted on
WorkspaceRoot == <<"workspace">>

\* setup_workspace: WORKSPACE_ROOT / run_id
WorkspacePath(run_id) == Append(WorkspaceRoot, run_id)

\* create_sandbox, volumes=: the whole workspace volume is bound read-write
\* at /workspace; only working_dir names the run's directory.
SandboxBind(run_id) == WorkspaceRoot

\* A container reaches every path under a directory bound into it
IsUnder(path, dir) ==
    /\ Len(dir) <= Len(path)
    /\ SubSeq(path, 1, Len(dir)) = dir

\* The patch texts a request may carry: ValidationRequest.patch is a str
\* without any validator, so the empty text is accepted.
PatchTexts == {"", "diff"}

NoRun ==
    [stage |-> "none", patch |-> "diff", wsExists |-> FALSE,
     wsCreated |-> FALSE, cloned |-> FALSE, patchTried |-> FALSE,
     sbRunning |-> FALSE, bind |-> <<>>]

FleetVars ==
    <<pc, request, status, attempts, errors, workspace, sandbox, result,
      completed, success, attempt, commit_sha, metrics, wsExists, sbRunning,
      head, remote, hist, poll, stream, unit>>

FleetInit ==
    /\ RunInit
    /\ unit = NoUnit
    /\ inflight = [run |-> [r \in RunIds |-> NoRun], loop |-> 0]

\* The event loop runs one coroutine at a time: a run steps when no other
\* run is between two of its suspension points.
LoopFree(r) == inflight.loop \in {0, r}

SetRun(r, rec, holder) ==
    inflight' = [run |-> [inflight.run EXCEPT ![r] = rec], loop |-> holder]

\* trigger_validation: the run is registered with the request as it came
FleetTrigger(r) ==
    /\ inflight.run[r].stage = "none"
    /\ inflight.loop = 0
    /\ \E p \in PatchTexts :
         SetRun(r, [inflight.run[r] EXCEPT !.stage = "pending", !.patch = p], 0)
    /\ UNCHANGED FleetVars

\* execute_validation, lines 640-646: setup_workspace
FleetSetupWorkspace(r) ==
    /\ inflight.run[r].stage = "pending"
    /\ inflight.loop = 0
    /\ \/ SetRun(r, [inflight.run[r] EXCEPT !.stage = "clone",
                        !.wsExists = TRUE, !.wsCreated = TRUE], r)
       \/ SetRun(r, [inflight.run[r] EXCEPT !.stage = "finally"], r)
    /\ UNCHANGED FleetVars

\* clone_repository into the run's workspace
FleetClone(r) ==
    /\ inflight.run[r].stage = "clone"
    /\ LoopFree(r)
    /\ \/ SetRun(r, [inflight.run[r] EXCEPT !.stage = "patch",
                        !.cloned = TRUE], r)
       \/ SetRun(r, [inflight.run[r] EXCEPT !.stage = "finally"], r)
    /\ UNCHANGED FleetVars

\* apply_patch of the request's patch: git apply --check refuses an empty
\* patch file, any other patch applies or not.
FleetApplyPatch(r) ==
    /\ inflight.run[r].stage = "patch"
    /\ LoopFree(r)
    /\ \/ /\ inflight.run[r].patch # ""
          /\ SetRun(r, [inflight.run[r] EXCEPT !.stage = "sandbox",
                           !.patchTried = TRUE], r)
       \/ SetRun(r, [inflight.run[r] EXCEPT !.stage = "finally",
                        !.patchTried = TRUE], r)
    /\ UNCHANGED FleetVars

\* create_sandbox
FleetCreateSandbox(r) ==
    /\ inflight.run[r].stage = "sandbox"
    /\ LoopFree(r)
    /\ \/ SetRun(r, [inflight.run[r] EXCEPT !.stage = "validate",
                        !.sbRunning = TRUE, !.bind = SandboxBind(r)], r)
       \/ SetRun(r, [inflight.run[r] EXCEPT !.stage = "finally"], r)
    /\ UNCHANGED FleetVars

\* The attempt loop up to its first await (the fixer request, the engine,
\* the callback): the event loop is released there.
FleetSuspend(r) ==
    /\ inflight.run[r].stage = "validate"
    /\ LoopFree(r)
    /\ SetRun(r, [inflight.run[r] EXCEPT !.stage = "awaiting"], 0)
    /\ UNCHANGED FleetVars

\* The awaited call returns, or the run had nothing to await: the rest of
\* the try block, up to the finally block
FleetResume(r) ==
    /\ inflight.run[r].stage \in {"validate", "awaiting"}
    /\ LoopFree(r)
    /\ SetRun(r, [inflight.run[r] EXCEPT !.stage = "finally"], r)
    /\ UNCHANGED FleetVars

\* The finally block: cleanup_sandbox, cleanup_workspace
FleetCleanup(r) ==
    /\ inflight.run[r].stage = "finally"
    /\ LoopFree(r)
    /\ SetRun(r, [inflight.run[r] EXCEPT !.stage = "done",
                     !.sbRunning = FALSE, !.wsExists = FALSE], 0)
    /\ UNCHANGED FleetVars

FleetNext ==
    \E r \in RunIds :
        \/ FleetTrigger(r)
        \/ FleetSetupWorkspace(r)
        \/ FleetClone(r)
        \/ FleetApplyPatch(r)
        \/ FleetCreateSandbox(r)
        \/ FleetSuspend(r)
        \/ FleetResume(r)
        \/ FleetCleanup(r)

FleetSpec == FleetInit /\ [][FleetNext]_vars

-----------------------------------------------------------------------------
\* Functions checked on their own: ExecutionEngine.execute with its
\* strategies, apply_patch and validate_in_sandbox. `unit` holds one call:
\* its input, the steps taken so far and what the call ended with.

\* Optional[T]: None is the empty set, a value v is {v}
None == {}
Some(v) == {v}
The(o) == CHOOSE v \in o : TRUE

\* class ExecutionStrategy
Strategies == {"none", "script", "service", "test", "daemon"}

\* Bound of the model: entries of one phrase list of a SuccessCriteria
MaxPhrases == 2

\* A phrase is its first 20 characters (head) and what follows them (tail):
\* phrase[:20], used in the keys of the results dict, is the head.
Phrases == {[head |-> "Tests completed: all", tail |-> " passed"],
            [head |-> "Tests completed: all", tail |-> " skipped"]}

PhraseLists == UNION {[1..n -> Phrases] : n \in 0..MaxPhrases}

\* The exit codes a command is given in the model
ExitCodes == {0, 1}

\* class SuccessCriteria with every field unset
NoCriteria ==
    [exit_code |-> None, exit_code_not |-> None, stdout_contains |-> <<>>,
     stdout_not_contains |-> <<>>, stderr_empty |-> None,
     stderr_contains |-> <<>>, runs_for_at_least |-> None,
     health_check_passes |-> None, test_pass_rate |-> None]

\* The SuccessCriteria given to the script strategy
ScriptCriteria ==
    {[NoCriteria EXCEPT !.exit_code = ec, !.exit_code_not = ecn,
                        !.stdout_contains = sc, !.stdout_not_contains = snc,
                        !.stderr_empty = se, !.stderr_contains = ec2,
                        !.runs_for_at_least = rt] :
        ec \in {None, Some(0), Some(1)}, ecn \in {None, Some(1)},
        sc \in PhraseLists, snc \in {<<>>},
        se \in {None, Some(TRUE), Some(FALSE)},
        ec2 \in {<<>>}, rt \in {None, Some(5)}}
    \cup
    {[NoCriteria EXCEPT !.stdout_not_contains = snc, !.stderr_contains = ec2,
                        !.health_check_passes = hc, !.test_pass_rate = tp] :
        snc \in PhraseLists, ec2 \in PhraseLists,
        hc \in {None, Some(TRUE)}, tp \in {None, Some(100)}}

\* What the sandbox gives back for a script: the exec call raises, or it
\* returns an exit code with the two output streams after some runtime.
\* An output stream is the set of phrases it contains; stderr may also be
\* empty or hold white space only.
ScriptRuns ==
    {[exec |-> "raises", exit_code |-> 1, stdout |-> {}, stderr |-> "",
      stderr_has |-> {}, runtime |-> 0]}
    \cup
    {[exec |-> "returns", exit_code |-> x, stdout |-> so, stderr |-> se,
      stderr_has |-> sh, runtime |-> rt] :
        x \in ExitCodes, so \in SUBSET Phrases,
        se \in {"", "blank", "text"}, sh \in SUBSET Phrases,
        rt \in {0, 5}}

\* A run of ScriptRuns is well formed when only a stderr with text holds phrases
WellFormed(run) == run.stderr # "text" => run.stderr_has = {}

\* results[key] = value of a Python dict: a later entry for the same key
\* replaces the earlier one
Put(results, key, value) ==
    [k \in DOMAIN results \cup {key} |->
        IF k = key THEN value ELSE results[k]]

\* for phrase in phrases: results[f"{name}_{phrase[:20]}"] = test(phrase)
RECURSIVE PutPhrases(_, _, _, _, _)
PutPhrases(results, name, phrases, present, wanted) ==
    IF phrases = <<>> THEN results
    ELSE PutPhrases(Put(results, <<name, Head(phrases).head>>,
                        (Head(phrases) \in present) = wanted),
                    name, Tail(phrases), present, wanted)

EmptyDict == [k \in {} |-> TRUE]

\* all(results.values())
AllValues(results) == \A k \in DOMAIN results : results[k]

\* not stderr or len(stderr.strip()) == 0
StderrIsEmpty(stderr) == stderr \in {"", "blank"}

\* line 432: criteria.stderr_empty is not None
StderrChecked(criteria) == criteria.stderr_empty # None

\* _evaluate_criteria for a criteria object, lines 413-446
CriteriaResults(criteria, run) ==
    LET r1 == IF criteria.exit_code # None
              THEN Put(EmptyDict, <<"exit_code_match", "">>,
                       run.exit_code = The(criteria.exit_code))
              ELSE EmptyDict
        r2 == IF criteria.exit_code_not # None
              THEN Put(r1, <<"exit_code_allowed", "">>,
                       run.exit_code \notin criteria.exit_code_not)
              ELSE r1
        r3 == PutPhrases(r2, "stdout_contains", criteria.stdout_contains,
                         run.stdout, TRUE)
        r4 == PutPhrases(r3, "stdout_not_contains",
                         criteria.stdout_not_contains, run.stdout, FALSE)
        r5 == IF StderrChecked(criteria)
              THEN Put(r4, <<"stderr_empty", "">>, StderrIsEmpty(run.stderr))
              ELSE r4
        r6 == PutPhrases(r5, "stderr_contains", criteria.stderr_contains,
                         run.stderr_has, TRUE)
        r7 == IF criteria.runs_for_at_least # None
              THEN Put(r6, <<"min_runtime", "">>,
                       run.runtime >= The(criteria.runs_for_at_least))
              ELSE r6
    IN  r7

\* _evaluate_criteria: without criteria, exit code 0 decides
EvaluateCriteria(success_if, run) ==
    IF success_if = None
    THEN [success |-> run.exit_code = 0,
          criteria_met |-> Put(EmptyDict, <<"exit_code_0", "">>,
                               run.exit_code = 0)]
    ELSE [success |-> AllValues(CriteriaResults(The(success_if), run)),
          criteria_met |-> CriteriaResults(The(success_if), run)]

\* class ExecutionConfig with its defaults: enabled False, strategy none
DefaultConfig ==
    [enabled |-> FALSE, strategy |-> "none", command |-> None,
     args |-> FALSE, test_command |-> None, test_framework |-> "None",
     health_check |-> None, shutdown_command |-> FALSE, success_if |-> None]

\* class ExecutionResult with only strategy and success set
Result(strategy, ok) ==
    [raised |-> FALSE, strategy |-> strategy, success |-> ok,
     exit_code |-> None, error |-> None, service_started |-> None,
     health_check_passed |-> None, health_check_response |-> None,
     tests_run |-> None, tests_passed |-> None, tests_failed |-> None,
     criteria_met |-> None, slept |-> None]

\* An exception leaving a strategy method
Raised(message) ==
    [Result("none", FALSE) EXCEPT !.raised = TRUE, !.error = Some(message)]

\* The except clause of a strategy method: a failed result with the message
Failed(strategy, message) ==
    [Result(strategy, FALSE) EXCEPT !.error = Some(message)]

\* _build_command: cmd = config.command; cmd += " " + " ".join(args) raises
\* TypeError when the command is None and args are given
BuildCommandRaises(command, args) == command = None /\ args

\* _execute_script
ExecuteScript(config, run) ==
    IF BuildCommandRaises(config.command, config.args)
    THEN Raised("TypeError")
    ELSE IF run.exec = "raises"
    THEN Failed("script", "exec_run failed")
    ELSE [Result("script", EvaluateCriteria(config.success_if, run).success)
            EXCEPT !.exit_code = Some(run.exit_code),
                   !.criteria_met =
                       Some(EvaluateCriteria(config.success_if, run).criteria_met)]

\* A health check's answer: passed or not, and the message
Health(passed, text, actual, expected) ==
    [passed |-> passed,
     response |-> [text |-> text, actual |-> actual, expected |-> expected]]

\* _http_health_check
HttpHealthCheck(hc, run) ==
    IF run.check_raises
    THEN Health(FALSE, "exception", 0, 0)
    ELSE IF hc.expected_status # None /\ run.status # The(hc.expected_status)
    THEN Health(FALSE, "Status, expected", run.status, The(hc.expected_status))
    ELSE IF hc.expects_body /\ ~run.body_ok
    THEN Health(FALSE, "Body missing", 0, 0)
    ELSE Health(TRUE, "Status", run.status, 0)

\* _tcp_health_check
TcpHealthCheck(hc, run) ==
    IF run.check_raises THEN Health(FALSE, "exception", 0, 0)
    ELSE IF run.port_open THEN Health(TRUE, "Port open", 0, 0)
    ELSE Health(FALSE, "Port closed", 0, 0)

\* _command_health_check
CommandHealthCheck(hc, run) ==
    IF run.check_raises THEN Health(FALSE, "exception", 0, 0)
    ELSE Health(run.check_exit = 0, "output", 0, 0)

\* _health_check
HealthCheck(hc, run) ==
    IF hc.type = "http" THEN HttpHealthCheck(hc, run)
    ELSE IF hc.type = "tcp" THEN TcpHealthCheck(hc, run)
    ELSE IF hc.type = "command" THEN CommandHealthCheck(hc, run)
    ELSE Health(FALSE, "Unknown health check type", 0, 0)

\* Mutant of ServiceSuccess: a started service is enough.
ServiceSuccessWhenStarted(health_check, health_passed, service_started) ==
    service_started

\* line 181: success = health_passed if config.health_check else service_started
ServiceSuccess(health_check, health_passed, service_started) ==
    IF health_check # None THEN health_passed ELSE service_started

\* _execute_service
ExecuteService(config, run) ==
    IF BuildCommandRaises(config.command, config.args)
    THEN Raised("TypeError")
    ELSE IF run.create = "raises"
    THEN [Failed("service", "exec_create failed")
            EXCEPT !.service_started = Some(FALSE)]
    ELSE IF config.shutdown_command /\ run.shutdown_raises
    THEN [Failed("service", "exec_run failed")
            EXCEPT !.service_started = Some(FALSE)]
    ELSE LET h == IF config.health_check # None
                  THEN HealthCheck(The(config.health_check), run)
                  ELSE [passed |-> FALSE, response |-> None]
         IN  [Result("service",
                     ServiceSuccess(config.health_check, h.passed, TRUE))
                EXCEPT !.service_started = Some(TRUE),
                       !.health_check_passed = Some(h.passed),
                       !.health_check_response =
                           IF config.health_check # None
                           THEN Some(h.response) ELSE None]

\* _parse_test_results: (tests_run, tests_passed, tests_failed)
ParseTestResults(output, framework) ==
    IF framework = "pytest"
    THEN LET passed == IF output.passed # None THEN The(output.passed) ELSE 0
             failed == IF output.failed # None THEN The(output.failed) ELSE 0
         IN  [run |-> passed + failed, passed |-> passed, failed |-> failed]
    ELSE IF framework = "jest" /\ output.jest # None
    THEN [run |-> The(output.jest).total, passed |-> The(output.jest).passed,
          failed |-> The(output.jest).total - The(output.jest).passed]
    ELSE [run |-> 0, passed |-> 0, failed |-> 0]

Max(a, b) == IF a >= b THEN a ELSE b

\* config.success_if.test_pass_rate or 1.0, in percent: None and 0 give 1.0
PassRate(criteria) ==
    IF criteria.test_pass_rate = None \/ The(criteria.test_pass_rate) = 0
    THEN 100 ELSE The(criteria.test_pass_rate)

\* lines 243-247: the success of a test run; rates are in percent, so
\* passed / max(run, 1) >= rate is passed * 100 >= rate * max(run, 1)
TestSuccess(success_if, exit_code, t) ==
    /\ exit_code = 0
    /\ \/ success_if = None
       \/ t.failed = 0
       \/ t.passed * 100 >= PassRate(The(success_if)) * Max(t.run, 1)

\* _execute_tests
ExecuteTests(config, run) ==
    IF BuildCommandRaises(config.test_command, config.args)
    THEN Raised("TypeError")
    ELSE IF run.exec = "raises"
    THEN Failed("test", "exec_run failed")
    ELSE LET t == ParseTestResults(run.output, config.test_framework)
         IN  [Result("test", TestSuccess(config.success_if, run.exit_code, t))
                EXCEPT !.exit_code = Some(run.exit_code),
                       !.tests_run = Some(t.run),
                       !.tests_passed = Some(t.passed),
                       !.tests_failed = Some(t.failed)]

\* The wait of the daemon strategy when no success_if is given, in seconds
DefaultDaemonWait == 5

\* line 300: config.success_if.runs_for_at_least if config.success_if else 5
MinRuntime(success_if) ==
    IF success_if # None THEN The(success_if).runs_for_at_least
    ELSE Some(DefaultDaemonWait)

\* _execute_daemon: asyncio.sleep(None) raises TypeError, which the except
\* clause of the method turns into a failed result
ExecuteDaemon(config, run) ==
    IF BuildCommandRaises(config.command, config.args)
    THEN Raised("TypeError")
    ELSE IF run.create = "raises"
    THEN Failed("daemon", "exec_create failed")
    ELSE IF MinRuntime(config.success_if) = None
    THEN Failed("daemon", "TypeError")
    ELSE [Result("daemon", run.still_running)
            EXCEPT !.slept = MinRuntime(config.success_if)]

\* lines 45-54: the dispatch on config.strategy inside the try block
Dispatch(config, run) ==
    IF config.strategy = "script" THEN ExecuteScript(config, run)
    ELSE IF config.strategy = "service" THEN ExecuteService(config, run)
    ELSE IF config.strategy = "test" THEN ExecuteTests(config, run)
    ELSE IF config.strategy = "daemon" THEN ExecuteDaemon(config, run)
    ELSE Raised("Unknown strategy")

\* Mutant of Execute: no except clause around the dispatch.
ExecuteUncaught(config, run) ==
    IF ~config.enabled THEN Result("none", TRUE)
    ELSE Dispatch(config, run)

\* ExecutionEngine.execute
Execute(config, run) ==
    IF ~config.enabled THEN Result("none", TRUE)
    ELSE IF Dispatch(config, run).raised
    THEN [Result(config.strategy, FALSE)
            EXCEPT !.error = Dispatch(config, run).error]
    ELSE Dispatch(config, run)

\* The configs given to each strategy
ScriptConfigs ==
    {[DefaultConfig EXCEPT !.enabled = TRUE, !.strategy = "script",
                           !.command = Some("python"), !.args = TRUE,
                           !.success_if = si] :
        si \in {None} \cup {Some(c) : c \in ScriptCriteria}}
    \cup
    {[DefaultConfig EXCEPT !.enabled = TRUE, !.strategy = "script",
                           !.args = TRUE]}

\* class HealthCheckConfig
HealthChecks ==
    {[type |-> "http", expected_status |-> e, expects_body |-> b] :
        e \in {None, Some(200)}, b \in BOOLEAN}
    \cup
    {[type |-> t, expected_status |-> Some(200), expects_body |-> FALSE] :
        t \in {"tcp", "command"}}

ServiceConfigs ==
    {[DefaultConfig EXCEPT !.enabled = TRUE, !.strategy = "service",
                           !.command = c, !.args = TRUE,
                           !.health_check = hc, !.shutdown_command = sd,
                           !.success_if = si] :
        c \in {None, Some("python")},
        hc \in {None} \cup {Some(h) : h \in HealthChecks},
        sd \in BOOLEAN,
        si \in {None,
                Some([NoCriteria EXCEPT !.health_check_passes = Some(TRUE)])}}

\* test_pass_rate in percent
PassRates == {None, Some(0), Some(80), Some(100)}

TestConfigs ==
    {[DefaultConfig EXCEPT !.enabled = TRUE, !.strategy = "test",
                           !.test_command = tc, !.args = TRUE,
                           !.test_framework = fw, !.success_if = si] :
        tc \in {None, Some("pytest")},
        fw \in {"pytest", "jest", "None"},
        si \in {None} \cup
               {Some([NoCriteria EXCEPT !.exit_code = ec,
                                        !.test_pass_rate = tp]) :
                    ec \in {None, Some(0)}, tp \in PassRates}}

DaemonConfigs ==
    {[DefaultConfig EXCEPT !.enabled = TRUE, !.strategy = "daemon",
                           !.command = c, !.args = TRUE, !.success_if = si] :
        c \in {None, Some("python")},
        si \in {None} \cup
               {Some([NoCriteria EXCEPT !.exit_code = ec,
                                        !.runs_for_at_least = rt]) :
                    ec \in {None, Some(0)},
                    rt \in {None, Some(0), Some(5)}}}

\* Configs whose strategy is none: the default one, and enabled ones
NoneConfigs ==
    {[DefaultConfig EXCEPT !.enabled = en, !.command = c] :
        en \in BOOLEAN, c \in {None, Some("python")}}
    \cup
    {[DefaultConfig EXCEPT !.strategy = st, !.command = Some("python")] :
        st \in Strategies}

Configs ==
    ScriptConfigs \cup ServiceConfigs \cup TestConfigs \cup DaemonConfigs
    \cup NoneConfigs

\* What the sandbox and the network give back to the service strategy
ServiceRuns ==
    [create : {"ok", "raises"}, check_raises : BOOLEAN, status : {200, 503},
     body_ok : BOOLEAN, port_open : BOOLEAN, check_exit : ExitCodes,
     shutdown_raises : BOOLEAN]

\* What a test command writes: the first "N passed" and "N failed" of the
\* output, and the "Tests: ... P passed ... T total" line of jest
TestOutputs ==
    [passed : {None, Some(0), Some(7), Some(8)},
     failed : {None, Some(0), Some(2)},
     jest : {None, Some([passed |-> 7, total |-> 9]),
             Some([passed |-> 9, total |-> 9])}]

TestRuns ==
    [exec : {"returns"}, exit_code : ExitCodes, output : TestOutputs]
    \cup
    {[exec |-> "raises", exit_code |-> 1,
      output |-> [passed |-> None, failed |-> None, jest |-> None]]}

DaemonRuns == [create : {"ok", "raises"}, still_running : BOOLEAN]

NotRun == [exec |-> "not run"]

\* What the outside world can answer to a config
RunsFor(config) ==
    IF ~config.enabled THEN {NotRun}
    ELSE IF config.strategy = "script"
    THEN {r \in ScriptRuns : WellFormed(r)}
    ELSE IF config.strategy = "service" THEN ServiceRuns
    ELSE IF config.strategy = "test" THEN TestRuns
    ELSE IF config.strategy = "daemon" THEN DaemonRuns
    ELSE {NotRun}

UnitFrame ==
    <<pc, request, status, attempts, errors, workspace, sandbox, result,
      completed, success, attempt, commit_sha, metrics, wsExists, sbRunning,
      head, remote, hist, poll, stream, inflight>>

\* engine.execute(config) is called and returns
EngineExecute ==
    /\ unit.fn = "execute"
    /\ unit.stage = "call"
    /\ \E run \in RunsFor(unit.config) :
         unit' = [unit EXCEPT !.stage = "returned", !.run = run,
                              !.result = Execute(unit.config, run)]
    /\ UNCHANGED UnitFrame

\* The calls of ExecutionEngine.execute that are checked
EngineCalls ==
    {[fn |-> "execute", stage |-> "call", config |-> c, run |-> NotRun,
      result |-> Result("none", FALSE)] : c \in Configs}

\* The exits of a git command
GitExits == {"zero", "nonzero"}

\* The calls of apply_patch that are checked. The working tree is its
\* content (base or patched) and what it holds under the name temp.patch:
\* nothing, a file of the repository, or the patch written by apply_patch.
PatchCalls ==
    {[fn |-> "apply_patch", stage |-> "call", tree |-> "base",
      temp_patch |-> f, before |-> [tree |-> "base", temp_patch |-> f],
      dry_run |-> "not run", applies |-> 0, raised |-> FALSE] :
        f \in {"absent", "of the repository"}}

\* lines 906-907: patch_file = repo_path / "temp.patch"; write_text(patch)
PatchWrite ==
    /\ unit.fn = "apply_patch"
    /\ unit.stage = "call"
    /\ unit' = [unit EXCEPT !.stage = "dry run", !.temp_patch = "the patch"]
    /\ UNCHANGED UnitFrame

\* lines 919-921: a dry run that exits non-zero raises
AfterDryRun(exit) == IF exit = "zero" THEN "apply" ELSE "finally"

\* lines 912-921: git apply --check
PatchDryRun ==
    /\ unit.fn = "apply_patch"
    /\ unit.stage = "dry run"
    /\ \E exit \in GitExits :
         unit' = [unit EXCEPT !.stage = AfterDryRun(exit),
                              !.dry_run = exit,
                              !.raised = (exit # "zero")]
    /\ UNCHANGED UnitFrame

\* lines 923-932: git apply; it changes the tree only when it exits zero
PatchApply ==
    /\ unit.fn = "apply_patch"
    /\ unit.stage = "apply"
    /\ \E exit \in GitExits :
         unit' = [unit EXCEPT !.stage = "finally",
                              !.applies = @ + 1,
                              !.tree = IF exit = "zero" THEN "patched" ELSE @,
                              !.raised = (@ \/ exit # "zero")]
    /\ UNCHANGED UnitFrame

\* lines 936-937: finally: patch_file.unlink(missing_ok=True)
PatchUnlink ==
    /\ unit.fn = "apply_patch"
    /\ unit.stage = "finally"
    /\ unit' = [unit EXCEPT !.stage = "returned", !.temp_patch = "absent"]
    /\ UNCHANGED UnitFrame

\* The calls of validate_in_sandbox that are checked
ValidateCalls ==
    {[fn |-> "validate_in_sandbox", stage |-> "call", checks |-> <<>>,
      syntax |-> "not run", build |-> "not run",
      result |-> [success |-> FALSE, step |-> "none", error |-> "None"]]}

\* lines 1059-1068: check_syntax; the function returns when the check
\* raised (except clause) or did not pass
ValidateSyntaxCheck ==
    /\ unit.fn = "validate_in_sandbox"
    /\ unit.stage = "call"
    /\ \E exit \in ExecOutcomes :
         unit' = [unit EXCEPT
            !.checks = Append(@, "syntax"),
            !.syntax = exit,
            !.stage = IF exit # "raises" /\ CheckSyntax(exit).passed
                      THEN "build" ELSE "returned",
            !.result = ValidateInSandbox(exit, "zero")]
    /\ UNCHANGED UnitFrame

\* lines 1072-1083: check_build, then the function returns
ValidateBuildCheck ==
    /\ unit.fn = "validate_in_sandbox"
    /\ unit.stage = "build"
    /\ \E exit \in ExecOutcomes :
         unit' = [unit EXCEPT
            !.checks = Append(@, "build"),
            !.build = exit,
            !.stage = "returned",
            !.result = ValidateInSandbox(unit.syntax, exit)]
    /\ UNCHANGED UnitFrame

UnitInit ==
    /\ RunInit
    /\ inflight = NoRuns
    /\ unit \in EngineCalls \cup PatchCalls \cup ValidateCalls

UnitNext ==
    \/ EngineExecute
    \/ PatchWrite
    \/ PatchDryRun
    \/ PatchApply
    \/ PatchUnlink
    \/ ValidateSyntaxCheck
    \/ ValidateBuildCheck

UnitSpec == UnitInit /\ [][UnitNext]_vars


(***************************************************************************)
(* Properties                                                              *)
(***************************************************************************)

Last(q) == q[Len(q)]

AllFail(runs) == \A i \in 1..Len(runs) : runs[i] = "fail"

\* A fixer answer that is no corrected patch: the request raised, or the
\* text lacks the --- or the +++ marker.
FixerFailure(resp) == resp.raises \/ ~resp.hasMinus \/ ~resp.hasPlus

NoFixerSuccess(resps) == \A i \in 1..Len(resps) : FixerFailure(resps[i])

\* C1: the status only moves pending -> running -> {completed, failed,
\* error}, and once it is completed, failed or error no later step of
\* execute_validation (callback, cleanup, exception handling) changes it.
C1_StatusOnlyMovesForward ==
    [][ /\ (status = "none" => status' \in {"none", "pending"})
        /\ (status = "pending" => status' \in {"pending", "running"})
        /\ (status = "running" => status' \in {"running"} \cup Terminal)
        /\ (status \in Terminal => status' = status) ]_vars

\* C1 witness: a completed run went through an undelivered callback and
\* both teardowns, and is still completed.
C1_Witness ==
    /\ pc = "done"
    /\ status = "completed"
    /\ hist.callbacks # <<>>
    /\ ~Last(hist.callbacks).delivered
    /\ hist.cleanup = <<"sandbox", "workspace">>

\* C2 (as claimed): whenever a poll sees the status completed, the
\* workspace directory no longer exists and the sandbox no longer runs.
C2_CompletedSeenOnlyAfterCleanup ==
    poll.seen = "completed" => (~poll.seenWs /\ ~poll.seenSb)

\* C3: once the sandbox was created, whatever is raised afterwards, sandbox
\* teardown and then workspace teardown have been invoked, in that order,
\* when execute_validation ends.
C3_TeardownAfterAnyException ==
    (pc = "done" /\ sandbox) => hist.cleanup = <<"sandbox", "workspace">>

\* C3 witness: an exception left the try block after the sandbox was
\* created (corrected-patch apply, commit or push) and the run ended.
C3_Witness ==
    /\ pc = "done"
    /\ sandbox
    /\ hist.raisedAt \in {"reapply", "commit", "push"}
    /\ status = "error"

\* C4 (as claimed): a run ends completed only if the push succeeded.
C4_CompletedOnlyIfPushed ==
    status = "completed" => (hist.pushes # <<>> /\ Last(hist.pushes) = "pushed")

\* C5 (as claimed): when there is nothing to commit or the commit exits
\* non-zero, no commit hash is returned and the run does not end completed
\* with a commit reference.
C5_FailedCommitGivesNoHash ==
    (hist.commits # <<>> /\ Last(hist.commits) # "committed")
        => (commit_sha = "absent" /\ ~(status = "completed" /\ result.commit # "absent"))

\* C6 (as claimed): at every terminal status attempts is in 1..MAX_ATTEMPTS.
C6_TerminalAttemptsAtLeastOne ==
    status \in Terminal => attempts \in 1..MAX_ATTEMPTS

\* C6 (amended): at status completed or failed attempts is in
\* 1..MAX_ATTEMPTS; at status error it is in 0..MAX_ATTEMPTS, and it is 0
\* exactly when the run failed before its sandbox was created.
C6_TerminalAttemptsInRange ==
    /\ status \in {"completed", "failed"} => attempts \in 1..MAX_ATTEMPTS
    /\ status = "error" =>
          /\ attempts \in 0..MAX_ATTEMPTS
          /\ (attempts = 0 <=> ~sandbox)

\* C6 witness: a run that used its whole budget and completed.
C6_Witness ==
    pc = "done" /\ status = "completed" /\ attempts = MAX_ATTEMPTS

\* C7: attempts is at most MAX_ATTEMPTS in every state and never decreases.
C7_AttemptsBoundedAndMonotone ==
    /\ attempts <= MAX_ATTEMPTS
    /\ [][attempts' >= attempts /\ attempts' <= MAX_ATTEMPTS]_vars

\* C7 witness: the last allowed attempt has been made.
C7_Witness ==
    attempts = MAX_ATTEMPTS /\ Len(hist.staticRuns) = MAX_ATTEMPTS

\* C8: a run whose static validation failed on every attempt and whose
\* fixer never returned success is never completed, commits and pushes
\* nothing, and has status failed when it ends.
C8_AllFailNoFixEndsFailed ==
    (hist.staticRuns # <<>> /\ AllFail(hist.staticRuns)
        /\ NoFixerSuccess(hist.fixResponses))
    => /\ status # "completed"
       /\ hist.commits = <<>>
       /\ hist.pushes = <<>>
       /\ (pc = "done" => status = "failed")

\* C8 witness: the first attempt failed, the fixer failed, the run ended.
C8_Witness ==
    /\ pc = "done"
    /\ hist.staticRuns = <<"fail">>
    /\ Len(hist.fixResponses) = 1
    /\ status = "failed"

\* C9: three static failures in a row, the fixer having succeeded on its
\* first two requests: the run made exactly 3 attempts and ended failed
\* with exactly 3 recorded errors.
C9_ThreeFailuresThreeErrors ==
    (pc = "done" /\ hist.staticRuns = <<"fail", "fail", "fail">>
        /\ Len(hist.fixResponses) >= 2
        /\ ~FixerFailure(hist.fixResponses[1])
        /\ ~FixerFailure(hist.fixResponses[2]))
    => /\ attempts = 3
       /\ status = "failed"
       /\ Len(errors) = 3
       /\ result.kind = "failure"
       /\ result.attempts = 3
       /\ Len(result.errors) = 3

\* C9 witness: that run.
C9_Witness ==
    /\ pc = "done"
    /\ hist.staticRuns = <<"fail", "fail", "fail">>
    /\ Len(hist.fixResponses) = 2
    /\ hist.applied = 3

FixerHasFailed ==
    hist.fixResponses # <<>> /\ FixerFailure(Last(hist.fixResponses))

\* C10: once the fixer reported failure, no further static validation
\* attempt and no further fixer request is made, and the run ends failed.
C10_FixerFailureStopsTheLoop ==
    [][FixerHasFailed =>
         /\ hist.staticRuns' = hist.staticRuns
         /\ hist.fixResponses' = hist.fixResponses
         /\ attempts' = attempts
         /\ status' \in {"running", "failed"}
         /\ (pc' = "done" => status' = "failed")]_vars

\* C10 witness: the fixer failed on its second request and the run ended.
C10_Witness ==
    /\ pc = "done"
    /\ Len(hist.fixResponses) = 2
    /\ FixerHasFailed
    /\ Len(hist.staticRuns) = 2


\* C11: when the enabled dynamic execution returned an unsuccessful result
\* or the engine raised, after static validation had passed, the run is
\* never completed, nothing is committed or pushed, and it ends failed.
C11_DynamicFailureEndsFailed ==
    hist.engineOut \in {"unsuccessful", "raises"}
    => /\ Last(hist.staticRuns) = "pass"
       /\ status \in {"running", "failed"}
       /\ hist.commits = <<>>
       /\ hist.pushes = <<>>
       /\ (pc = "done" => status = "failed")

\* C11 witness: the engine raised after a passing static attempt and the
\* run ended.
C11_Witness ==
    /\ pc = "done"
    /\ hist.engineOut = "raises"
    /\ Last(hist.staticRuns) = "pass"
    /\ status = "failed"


RECURSIVE CountFails(_)
CountFails(runs) ==
    IF runs = <<>> THEN 0
    ELSE (IF Last(runs) = "fail" THEN 1 ELSE 0)
         + CountFails(SubSeq(runs, 1, Len(runs) - 1))

DynamicFailed == hist.engineOut \in {"unsuccessful", "raises"}

C13_ResultCarriesCommitOrErrors ==
    /\ status = "completed"
         => (result.kind = "success" /\ result.commit # "absent")
    /\ status = "failed"
         => /\ result.kind = "failure"
            /\ result.errors # <<>>
            /\ Len(result.errors) = CountFails(hist.staticRuns)


StaticPassed == hist.staticRuns # <<>> /\ Last(hist.staticRuns) = "pass"

\* C14 (as claimed): with execution disabled or absent, a run whose static
\* validation passed ends completed, the engine's dispatch never invoked.
C14_NoExecutionEndsCompleted ==
    (pc = "done" /\ request.execution # "enabled" /\ StaticPassed)
    => (status = "completed" /\ hist.dispatches = 0)

\* C14 (amended): with execution disabled or absent the engine is never
\* called, let alone its dispatch, and a run whose static validation passed
\* ends completed unless commit or push raised, and then it ends error.
C14_NoExecutionNoEngine ==
    request.execution # "enabled"
    => /\ hist.engineRuns = 0
       /\ hist.dispatches = 0
       /\ (pc = "done" /\ StaticPassed)
            => IF hist.raisedAt \in {"commit", "push"}
               THEN status = "error"
               ELSE status = "completed"

\* C14 witness: a request with execution disabled passed and completed.
C14_Witness ==
    /\ pc = "done"
    /\ request.execution = "disabled"
    /\ StaticPassed
    /\ status = "completed"

\* C15 (as claimed): a run whose request names a callback URL has posted
\* the callback with its final status when it ends, whatever that status.
C15_CallbackAlwaysFired ==
    (pc = "done" /\ request.hasCallback)
    => (hist.callbacks # <<>> /\ Last(hist.callbacks).status = status)

EarlyFailure == hist.raisedAt \in {"clone", "checkout", "sandbox"}

\* C16: after a failure of clone, branch checkout or sandbox creation no
\* static attempt is made, the fixer is not invoked, nothing is committed
\* or pushed, and the run ends error with a result naming an error.
C16_EarlyFailureEndsError ==
    EarlyFailure
    => /\ hist.staticRuns = <<>>
       /\ hist.fixResponses = <<>>
       /\ hist.commits = <<>>
       /\ hist.pushes = <<>>
       /\ attempts = 0
       /\ (pc \in {"finally", "cleanup_ws", "done"}
             => /\ status = "error"
                /\ result.kind = "error"
                /\ result.error # "absent")

\* C16 witness: the branch checkout failed and the run ended.
C16_Witness ==
    /\ pc = "done"
    /\ hist.raisedAt = "checkout"
    /\ status = "error"

\* C17: the callback and the two teardowns leave status and result as they
\* were, whether they fail or not, and a sandbox teardown that failed is
\* still followed by the workspace teardown.
C17_CleanupKeepsStatusAndResult ==
    [][ /\ (pc \in {"callback", "finally", "cleanup_ws"}
              => (status' = status /\ result' = result))
        /\ ((pc' = "done" /\ sbRunning' /\ workspace')
              => (hist.cleanup' # <<>> /\ Last(hist.cleanup') = "workspace"))
      ]_vars

\* C17 witness: callback undelivered, container still running, directory
\* still there, and the run is completed as before.
C17_Witness ==
    /\ pc = "done"
    /\ status = "completed"
    /\ result.kind = "success"
    /\ hist.callbacks # <<>>
    /\ ~Last(hist.callbacks).delivered
    /\ sbRunning
    /\ wsExists
    /\ hist.cleanup = <<"sandbox", "workspace">>


\* The steps in which, by C18, a run is blocked without holding up others
BlockingSteps == {"clone", "checkout", "patch", "validate", "reapply", "push"}

\* C18 (as claimed): while the run is in a clone, fetch/checkout, patch
\* apply, sandbox command or push, a status poll that is due can be served.
C18_BlockedRunLetsOthersStep ==
    (pc \in BlockingSteps /\ poll.state = "polling" /\ poll.count < MaxPolls)
    => ENABLED PollStatus

\* C19 (as claimed): no command keeps a run waiting for ever: a run that is
\* registered and has not ended can take a further step.
C19_RunNeverStuck ==
    (pc \notin {"idle", "done"}) => ENABLED RunStep

\* C20 (as claimed): a log stream that has ended, ended at a terminal
\* status of its run or at the poll ceiling.
C20_StreamEndsAtTerminalOrCeiling ==
    stream.state = "closed"
    => (stream.endedAt \in Terminal \/ stream.polls = StreamPollCeiling)


\* C21 (as claimed): the sandbox of a run reaches no other run's workspace
\* directory.
C21_SandboxReachesOwnWorkspaceOnly ==
    \A r \in RunIds : \A q \in RunIds \ {r} :
        (inflight.run[r].sbRunning /\ inflight.run[q].wsExists)
        => ~IsUnder(WorkspacePath(q), inflight.run[r].bind)

\* C29 (as claimed): for a request with an empty patch no workspace is
\* created, no repository is cloned and no patch application is attempted.
C29_EmptyPatchNeverUsed ==
    \A r \in RunIds :
        inflight.run[r].patch = ""
        => /\ ~inflight.run[r].wsCreated
           /\ ~inflight.run[r].cloned
           /\ ~inflight.run[r].patchTried

\* A call of engine.execute with an enabled config of the strategy returned
Returned(strategy) ==
    /\ unit.fn = "execute"
    /\ unit.stage = "returned"
    /\ unit.config.enabled
    /\ unit.config.strategy = strategy

\* C22: ExecutionEngine.execute never raises; for an enabled config whose
\* strategy is none, and whenever a strategy method raises, the result is
\* unsuccessful and carries the exception's message.
C22_ExecuteNeverRaises ==
    (unit.fn = "execute" /\ unit.stage = "returned")
    => /\ ~unit.result.raised
       /\ Returned("none")
          => /\ ~unit.result.success
             /\ unit.result.error = Some("Unknown strategy")
       /\ (unit.config.enabled /\ Dispatch(unit.config, unit.run).raised)
          => /\ ~unit.result.success
             /\ unit.result.error = Dispatch(unit.config, unit.run).error
       /\ (unit.config.enabled /\ unit.result.error # None)
          => ~unit.result.success

C22_Witness ==
    /\ Returned("none")
    /\ unit.config = [DefaultConfig EXCEPT !.enabled = TRUE]
    /\ unit.result.error = Some("Unknown strategy")
    /\ ~unit.result.success

\* Every entry of a phrase list is (wanted) or is not (~wanted) in the output
EachPhrase(phrases, present, wanted) ==
    \A i \in DOMAIN phrases : (phrases[i] \in present) = wanted

\* The conjunction of the predicates a SuccessCriteria holds
AllPredicates(criteria, run) ==
    /\ criteria.exit_code # None => run.exit_code = The(criteria.exit_code)
    /\ run.exit_code \notin criteria.exit_code_not
    /\ EachPhrase(criteria.stdout_contains, run.stdout, TRUE)
    /\ EachPhrase(criteria.stdout_not_contains, run.stdout, FALSE)
    /\ criteria.stderr_empty # None => StderrIsEmpty(run.stderr)
    /\ EachPhrase(criteria.stderr_contains, run.stderr_has, TRUE)
    /\ criteria.runs_for_at_least # None
       => run.runtime >= The(criteria.runs_for_at_least)

\* The script's command was built and ran to its end
ScriptRan ==
    /\ Returned("script")
    /\ ~BuildCommandRaises(unit.config.command, unit.config.args)
    /\ unit.run.exec = "returns"

\* C23 (as claimed): the success of a script run is the conjunction of
\* every predicate its criteria hold, and exit code = 0 without criteria.
C23_ScriptSuccessIsConjunction ==
    ScriptRan
    => unit.result.success =
         IF unit.config.success_if = None THEN unit.run.exit_code = 0
         ELSE AllPredicates(The(unit.config.success_if), unit.run)

\* C24 (as claimed): a test run succeeds exactly when the exit code is 0 and
\* no criteria are configured, or no failure was parsed, or passed / run is
\* at least the configured test_pass_rate (1.0 when none is configured).
C24_TestSuccessByPassRate ==
    (/\ Returned("test")
     /\ ~BuildCommandRaises(unit.config.test_command, unit.config.args)
     /\ unit.run.exec = "returns")
    => LET si == unit.config.success_if
           run_ == The(unit.result.tests_run)
           passed == The(unit.result.tests_passed)
           failed == The(unit.result.tests_failed)
           rate == IF The(si).test_pass_rate = None THEN 100
                   ELSE The(The(si).test_pass_rate)
       IN  unit.result.success =
             /\ unit.run.exit_code = 0
             /\ \/ si = None
                \/ failed = 0
                \/ passed * 100 >= rate * Max(run_, 1)

\* C25 (as claimed): a daemon without a configured minimum runtime is given
\* the default 5 seconds and succeeds exactly when it is still running.
C25_DaemonDefaultWait ==
    (/\ Returned("daemon")
     /\ ~BuildCommandRaises(unit.config.command, unit.config.args)
     /\ unit.run.create = "ok"
     /\ \/ unit.config.success_if = None
        \/ The(unit.config.success_if).runs_for_at_least = None)
    => /\ unit.result.slept = Some(DefaultDaemonWait)
       /\ unit.result.success = unit.run.still_running

\* The service was started: its command was built and exec_create/start returned
ServiceStarted ==
    /\ Returned("service")
    /\ ~BuildCommandRaises(unit.config.command, unit.config.args)
    /\ unit.run.create = "ok"

\* The shutdown command is configured and its exec_run raises
ShutdownRaised == unit.config.shutdown_command /\ unit.run.shutdown_raises

\* What C26 gives as the success of a started service
ClaimedServiceSuccess ==
    IF unit.config.health_check # None
    THEN HealthCheck(The(unit.config.health_check), unit.run).passed
    ELSE TRUE

Http503 ==
    /\ ServiceStarted
    /\ ~ShutdownRaised
    /\ unit.config.health_check # None
    /\ The(unit.config.health_check).type = "http"
    /\ The(unit.config.health_check).expected_status = Some(200)
    /\ ~unit.run.check_raises
    /\ unit.run.status = 503

C30_StderrToleratedWhenFalse ==
    (/\ ScriptRan
     /\ unit.config.success_if =
          Some([NoCriteria EXCEPT !.exit_code = Some(unit.run.exit_code),
                                  !.stderr_empty = Some(FALSE)])
     /\ unit.run.stderr = "text")
    => unit.result.success

\* C27 (as claimed): apply_patch runs the real apply only after a dry run
\* that succeeded; after a failed dry run it has raised and the working
\* tree is as it was before the call; when it has returned or raised, no
\* temporary patch file is left.
C27_FailedDryRunLeavesTreeAlone ==
    (unit.fn = "apply_patch" /\ unit.stage = "returned")
    => /\ unit.applies > 0 => unit.dry_run = "zero"
       /\ unit.temp_patch # "the patch"
       /\ unit.dry_run = "nonzero"
          => /\ unit.applies = 0
             /\ unit.raised
             /\ unit.tree = unit.before.tree
             /\ unit.temp_patch = unit.before.temp_patch

\* C28: in a static validation attempt the syntax check runs first, the
\* build check runs exactly when the syntax check passed, a build command
\* that returns never fails the attempt whatever its exit code, and a
\* failed attempt is a syntax failure or a caught exception.
C28_SyntaxThenLenientBuild ==
    (unit.fn = "validate_in_sandbox" /\ unit.stage = "returned")
    => /\ unit.checks \in {<<"syntax">>, <<"syntax", "build">>}
       /\ (unit.checks = <<"syntax", "build">>) = (unit.syntax = "zero")
       /\ unit.build \in {"zero", "nonzero"} => unit.result.success
       /\ ~unit.result.success => unit.result.step \in {"syntax", "validation"}
       /\ unit.result.step = "syntax" => unit.syntax = "nonzero"
       /\ unit.result.step = "validation"
          => "raises" \in {unit.syntax, unit.build}

C28_Witness ==
    /\ unit.fn = "validate_in_sandbox"
    /\ unit.stage = "returned"
    /\ unit.checks = <<"syntax", "build">>
    /\ unit.build = "nonzero"
    /\ unit.result.success

\* C31 (as claimed): when dynamic execution was performed, the result of a
\* run that ended completed or failed still holds the execution entry.
C31_FinalResultKeepsExecution ==
    (status \in {"completed", "failed"} /\ hist.engineRuns > 0)
    => result.execution # "absent"

\* C37 (as claimed): a log stream that saw its run running delivers every
\* entry the run appends: it ends at a terminal status only when the run
\* has no entry left to append, the finally block's entries included.
C37_StreamDeliversEveryEntry ==
    (stream.state = "closed" /\ stream.polls > 0
        /\ stream.endedAt \in Terminal)
    => ~AppendsLogs(pc)

\* C38 (as claimed): when the run has ended, exactly one of
\* successful_validations and failed_validations was incremented for it:
\* total_validations = successful_validations + failed_validations.
C38_MetricsAddUp ==
    pc = "done"
    => /\ metrics.total_validations = 1
       /\ metrics.total_validations =
            metrics.successful_validations + metrics.failed_validations

\* C33: in every state the number of recorded errors is attempts or
\* attempts - 1; a completed run has attempts - 1 of them; and the list only
\* grows at its end.
C33_ErrorsFollowAttempts ==
    /\ [](Len(errors) \in {attempts, attempts - 1})
    /\ [](status = "completed" => Len(errors) = attempts - 1)
    /\ [][/\ Len(errors') >= Len(errors)
          /\ SubSeq(errors', 1, Len(errors)) = errors]_vars

C33_Witness ==
    /\ status = "completed"
    /\ attempts = MAX_ATTEMPTS
    /\ Len(errors) = MAX_ATTEMPTS - 1

\* C34: the fixer is invoked at most MAX_ATTEMPTS - 1 times in a run, each
\* time directly after a failed static attempt, and never after the failure
\* of the last allowed attempt.
C34_FixerOnlyAfterEarlierFailure ==
    /\ Len(hist.fixResponses) <= MAX_ATTEMPTS - 1
    /\ Len(hist.fixResponses) <= CountFails(hist.staticRuns)
    /\ pc = "fix"
       => /\ hist.staticRuns # <<>>
          /\ Last(hist.staticRuns) = "fail"
          /\ Len(hist.staticRuns) < MAX_ATTEMPTS
          /\ Len(hist.fixResponses) = Len(hist.staticRuns) - 1
          /\ attempts = Len(hist.staticRuns)

\* C34 witness: the last fixer invocation a run can make is in progress.
C34_Witness ==
    /\ pc = "fix"
    /\ Len(hist.staticRuns) = MAX_ATTEMPTS - 1
    /\ Len(hist.fixResponses) = MAX_ATTEMPTS - 2

\* C35: commit and push are executed only when the most recent static
\* attempt passed and the dynamic execution, if enabled, returned success;
\* a push is made only after the commit step returned; each is executed at
\* most once in a run.
C35_CommitThenPushOnSuccessOnly ==
    /\ Len(hist.commits) <= 1
    /\ Len(hist.pushes) <= 1
    /\ hist.pushes # <<>>
       => (hist.commits # <<>> /\ ~CommitRaises(Last(hist.commits)))
    /\ (hist.commits # <<>> \/ pc \in {"commit", "push"})
       => /\ hist.staticRuns # <<>>
          /\ Last(hist.staticRuns) = "pass"
          /\ request.execution = "enabled" => hist.engineOut = "success"

\* C35 witness: a run with execution enabled that passed on a later attempt
\* has committed and pushed.
C35_Witness ==
    /\ hist.commits # <<>>
    /\ hist.pushes # <<>>
    /\ request.execution = "enabled"
    /\ hist.engineOut = "success"
    /\ Len(hist.staticRuns) > 1

\* C36: when a corrected patch fails to apply, the run does not end failed
\* but error, no further static attempt or fixer request is made, nothing
\* is committed, the errors recorded so far stay in run.errors, and sandbox
\* and workspace teardown are invoked.
C36_CorrectedPatchFailureEndsError ==
    hist.raisedAt = "reapply"
    => /\ status \in {"running", "error"}
       /\ Len(hist.staticRuns) = Len(hist.fixResponses)
       /\ AllFail(hist.staticRuns)
       /\ Len(errors) = Len(hist.staticRuns)
       /\ errors # <<>>
       /\ hist.commits = <<>>
       /\ pc = "done"
          => /\ status = "error"
             /\ completed
             /\ hist.cleanup = <<"sandbox", "workspace">>

C36_Witness ==
    /\ hist.raisedAt = "reapply"
    /\ pc = "done"
    /\ Len(errors) = MAX_ATTEMPTS - 1

\* C32: every fixer invocation of a run, the second one after a corrected
\* patch was applied included, is given the request's original patch; every
\* application of a corrected patch directly follows a repository reset,
\* every reset is directly followed by that application, and each static
\* attempt directly follows an application of a patch.
C32_FixerGetsOriginalPatchAfterReset ==
    /\ \A i \in 1..Len(hist.fixPatches) : hist.fixPatches[i] = "original"
    /\ \A i \in 1..Len(hist.ops) :
         /\ (hist.ops[i] = "apply_patch" /\ i > 1)
            => hist.ops[i - 1] = "reset_repository"
         /\ hist.ops[i] = "reset_repository"
            => (i < Len(hist.ops) /\ hist.ops[i + 1] = "apply_patch" /\ i > 1
                /\ hist.ops[i - 1] = "validate_in_sandbox")
         /\ hist.ops[i] = "validate_in_sandbox"
            => (i > 1 /\ hist.ops[i - 1] = "apply_patch")

\* C32 witness: the fixer was invoked a second time, after a corrected
\* patch had been applied over a reset repository.
C32_Witness ==
    /\ Len(hist.fixPatches) = 2
    /\ hist.applied = 2
    /\ hist.ops = <<"apply_patch", "validate_in_sandbox", "reset_repository",
                    "apply_patch", "validate_in_sandbox">>

==========================================================================
